---- MODULE Spec2Model ----
(***************************************************************************)
(* A model of the regular-expression engine of erastus-murungi/reg: the   *)
(* scanning loop and replacement facade of src/src/matching.py, the NFA   *)
(* matching strategies of src/src/nfa_matcher.py, the epsilon closure of  *)
(* src/nfa.py and the union-find structure of src/utils.py.               *)
(*                                                                         *)
(* Strings are sequences of one-character strings.  Python's 0-based       *)
(* positions are kept; a sequence index is a position plus one.            *)
(***************************************************************************)
EXTENDS Integers, Sequences, FiniteSets, TLC

VARIABLES text, pat, start, yielded, attempts, pc, call, run,
          parents, weights

vars ==
    <<text, pat, start, yielded, attempts, pc, call, run, parents, weights>>

(***************************************************************************)
(* Bounds of the model.                                                    *)
(***************************************************************************)
\* longest input text explored
MaxLen == 4
\* largest substitution count passed to subn
MaxCount == 3

Alphabet == {"a", "b"}

Texts == UNION {[1..n -> Alphabet] : n \in 0..MaxLen}

(***************************************************************************)
(* Python values.                                                          *)
(***************************************************************************)
\* sys.maxsize, the "unset" sentinel of a group slot.  It is only compared
\* and used as a slice bound, never added to; the value is the largest
\* integer of TLC's arithmetic.
maxsize == 2147483647

NoneVal == [tag |-> "None"]

IndexError == [tag |-> "IndexError"]

Str(s) == [tag |-> "str", val |-> s]

Min2(a, b) == IF a <= b THEN a ELSE b

Max2(a, b) == IF a >= b THEN a ELSE b

Reverse(s) == [i \in 1..Len(s) |-> s[Len(s) + 1 - i]]

Range(s) == {s[i] : i \in 1..Len(s)}

\* s[a:b] of a Python sequence: negative bounds count from the end, both
\* bounds are clamped to [0, len(s)], and an empty range gives "".
SliceBound(n, i) == IF i < 0 THEN Max2(n + i, 0) ELSE Min2(i, n)

Slice(s, a, b) ==
    LET lo == SliceBound(Len(s), a)
        hi == SliceBound(Len(s), b)
    IN  IF lo >= hi THEN <<>> ELSE SubSeq(s, lo + 1, hi)

\* "".join(chunks)
RECURSIVE Join(_)
Join(chunks) ==
    IF chunks = <<>> THEN <<>> ELSE Head(chunks) \o Join(Tail(chunks))

(***************************************************************************)
(* Matchers, cursors and transitions.                                      *)
(***************************************************************************)
Char(c) == [kind |-> "char", c |-> c, g |-> 0]

\* `.`: any one character (the alphabet has no newline)
AnyChar == [kind |-> "any", c |-> "", g |-> 0]

EPSILON == [kind |-> "eps", c |-> "", g |-> 0]

GroupEntry(i) == [kind |-> "entry", c |-> "", g |-> i]

GroupExit(i) == [kind |-> "exit", c |-> "", g |-> i]

Transition(m, e) == [matcher |-> m, end |-> e]

Cursor(position, groups) == [position |-> position, groups |-> groups]

\* isinstance(matcher, Anchor): every zero-width matcher, EPSILON and the
\* group markers included
IsAnchor(m) == m.kind \notin {"char", "any"}

\* matcher(cursor, context)
Matches(m, cursor, context) ==
    CASE m.kind = "char" ->
             /\ cursor.position < Len(context)
             /\ context[cursor.position + 1] = m.c
      [] m.kind = "any" -> cursor.position < Len(context)
      [] m.kind = "eps" -> FALSE
      [] OTHER -> TRUE

\* matcher.update(cursor)
update(m, cursor) ==
    CASE ~IsAnchor(m) -> Cursor(cursor.position + 1, cursor.groups)
      [] m.kind = "entry" ->
             Cursor(cursor.position,
                    [cursor.groups EXCEPT ![2 * m.g + 1] = cursor.position])
      [] m.kind = "exit" ->
             Cursor(cursor.position,
                    [cursor.groups EXCEPT ![2 * m.g + 2] = cursor.position])
      [] OTHER -> cursor

\* matcher.update_index(cursor): the position only
update_index(m, cursor) ==
    IF ~IsAnchor(m)
    THEN Cursor(cursor.position + 1, cursor.groups)
    ELSE cursor

(***************************************************************************)
(* The compiled automata.  The parser and the NFA builder are not part of  *)
(* the sources at hand; each pattern below is lowered by the Thompson      *)
(* construction the specification describes (section 4.3): a fresh start   *)
(* and accept per fragment, epsilon wiring, "take" before "skip" for a     *)
(* greedy quantifier and "skip" before "take" for a lazy one, and group    *)
(* markers around a capturing group.  States are numbered from 1 and       *)
(* transitions[s] is the ordered list of transitions leaving s.            *)
(***************************************************************************)
\* a*
NFA_star ==
    [transitions |->
       << <<Transition(EPSILON, 2), Transition(EPSILON, 4)>>,
          <<Transition(Char("a"), 3)>>,
          <<Transition(EPSILON, 1)>>,
          <<>> >>,
     start_state |-> 1,
     accepting_states |-> {4},
     group_count |-> 0]

\* a+?b
NFA_lazy_plus ==
    [transitions |->
       << <<Transition(Char("a"), 2)>>,
          <<Transition(EPSILON, 3)>>,
          <<Transition(EPSILON, 6), Transition(EPSILON, 4)>>,
          <<Transition(Char("a"), 5)>>,
          <<Transition(EPSILON, 3)>>,
          <<Transition(EPSILON, 7)>>,
          <<Transition(Char("b"), 8)>>,
          <<>> >>,
     start_state |-> 1,
     accepting_states |-> {8},
     group_count |-> 0]

\* (ab)+
NFA_group_plus ==
    [transitions |->
       << <<Transition(GroupEntry(0), 2)>>,
          <<Transition(Char("a"), 3)>>,
          <<Transition(EPSILON, 4)>>,
          <<Transition(Char("b"), 5)>>,
          <<Transition(GroupExit(0), 6)>>,
          <<Transition(EPSILON, 7)>>,
          <<Transition(EPSILON, 8), Transition(EPSILON, 14)>>,
          <<Transition(GroupEntry(0), 9)>>,
          <<Transition(Char("a"), 10)>>,
          <<Transition(EPSILON, 11)>>,
          <<Transition(Char("b"), 12)>>,
          <<Transition(GroupExit(0), 13)>>,
          <<Transition(EPSILON, 7)>>,
          <<>> >>,
     start_state |-> 1,
     accepting_states |-> {14},
     group_count |-> 1]

\* a?(?:ab)?
NFA_two_optionals ==
    [transitions |->
       << <<Transition(EPSILON, 2), Transition(EPSILON, 4)>>,
          <<Transition(Char("a"), 3)>>,
          <<Transition(EPSILON, 4)>>,
          <<Transition(EPSILON, 5)>>,
          <<Transition(EPSILON, 6), Transition(EPSILON, 10)>>,
          <<Transition(Char("a"), 7)>>,
          <<Transition(EPSILON, 8)>>,
          <<Transition(Char("b"), 9)>>,
          <<Transition(EPSILON, 10)>>,
          <<>> >>,
     start_state |-> 1,
     accepting_states |-> {10},
     group_count |-> 0]

\* .+?b
NFA_lazy_any_plus ==
    [transitions |->
       << <<Transition(AnyChar, 2)>>,
          <<Transition(EPSILON, 3)>>,
          <<Transition(EPSILON, 6), Transition(EPSILON, 4)>>,
          <<Transition(AnyChar, 5)>>,
          <<Transition(EPSILON, 3)>>,
          <<Transition(EPSILON, 7)>>,
          <<Transition(Char("b"), 8)>>,
          <<>> >>,
     start_state |-> 1,
     accepting_states |-> {8},
     group_count |-> 0]

\* (.)+?b
NFA_group_lazy_plus ==
    [transitions |->
       << <<Transition(GroupEntry(0), 2)>>,
          <<Transition(AnyChar, 3)>>,
          <<Transition(GroupExit(0), 4)>>,
          <<Transition(EPSILON, 5)>>,
          <<Transition(EPSILON, 10), Transition(EPSILON, 6)>>,
          <<Transition(GroupEntry(0), 7)>>,
          <<Transition(AnyChar, 8)>>,
          <<Transition(GroupExit(0), 9)>>,
          <<Transition(EPSILON, 5)>>,
          <<Transition(EPSILON, 11)>>,
          <<Transition(Char("b"), 12)>>,
          <<>> >>,
     start_state |-> 1,
     accepting_states |-> {12},
     group_count |-> 1]

\* a+?
NFA_lazy_plus_end ==
    [transitions |->
       << <<Transition(Char("a"), 2)>>,
          <<Transition(EPSILON, 3)>>,
          <<Transition(EPSILON, 6), Transition(EPSILON, 4)>>,
          <<Transition(Char("a"), 5)>>,
          <<Transition(EPSILON, 3)>>,
          <<>> >>,
     start_state |-> 1,
     accepting_states |-> {6},
     group_count |-> 0]

\* (a)+?
NFA_group_lazy_plus_end ==
    [transitions |->
       << <<Transition(GroupEntry(0), 2)>>,
          <<Transition(Char("a"), 3)>>,
          <<Transition(GroupExit(0), 4)>>,
          <<Transition(EPSILON, 5)>>,
          <<Transition(EPSILON, 10), Transition(EPSILON, 6)>>,
          <<Transition(GroupEntry(0), 7)>>,
          <<Transition(Char("a"), 8)>>,
          <<Transition(GroupExit(0), 9)>>,
          <<Transition(EPSILON, 5)>>,
          <<>> >>,
     start_state |-> 1,
     accepting_states |-> {10},
     group_count |-> 1]

\* (a*)*: the loops make a cycle of zero-width transitions
\* 1 -> 2 -> 3 -> 6 -> 7 -> 1
NFA_nested_star ==
    [transitions |->
       << <<Transition(EPSILON, 2), Transition(EPSILON, 8)>>,
          <<Transition(GroupEntry(0), 3)>>,
          <<Transition(EPSILON, 4), Transition(EPSILON, 6)>>,
          <<Transition(Char("a"), 5)>>,
          <<Transition(EPSILON, 3)>>,
          <<Transition(GroupExit(0), 7)>>,
          <<Transition(EPSILON, 1)>>,
          <<>> >>,
     start_state |-> 1,
     accepting_states |-> {8},
     group_count |-> 1]

\* (?:a|.)*
NFA_alt_star ==
    [transitions |->
       << <<Transition(EPSILON, 2), Transition(EPSILON, 8)>>,
          <<Transition(EPSILON, 3), Transition(EPSILON, 5)>>,
          <<Transition(Char("a"), 4)>>,
          <<Transition(EPSILON, 7)>>,
          <<Transition(AnyChar, 6)>>,
          <<Transition(EPSILON, 7)>>,
          <<Transition(EPSILON, 1)>>,
          <<>> >>,
     start_state |-> 1,
     accepting_states |-> {8},
     group_count |-> 0]

\* (?:a*)*: the loops make a cycle of epsilon transitions 1 -> 2 -> 5 -> 1
NFA_star_star ==
    [transitions |->
       << <<Transition(EPSILON, 2), Transition(EPSILON, 6)>>,
          <<Transition(EPSILON, 3), Transition(EPSILON, 5)>>,
          <<Transition(Char("a"), 4)>>,
          <<Transition(EPSILON, 2)>>,
          <<Transition(EPSILON, 1)>>,
          <<>> >>,
     start_state |-> 1,
     accepting_states |-> {6},
     group_count |-> 0]

Patterns ==
    {"a*", "a+?b", ".+?b", "(ab)+", "a?(?:ab)?", "(.)+?b",
     "a+?", "(a)+?", "(a*)*", "(?:a|.)*", "(?:a*)*"}

Automaton(p) ==
    CASE p = "a*" -> NFA_star
      [] p = "a+?b" -> NFA_lazy_plus
      [] p = "(ab)+" -> NFA_group_plus
      [] p = "a?(?:ab)?" -> NFA_two_optionals
      [] p = ".+?b" -> NFA_lazy_any_plus
      [] p = "(.)+?b" -> NFA_group_lazy_plus
      [] p = "a+?" -> NFA_lazy_plus_end
      [] p = "(a)+?" -> NFA_group_lazy_plus_end
      [] p = "(a*)*" -> NFA_nested_star
      [] p = "(?:a|.)*" -> NFA_alt_star
      [] p = "(?:a*)*" -> NFA_star_star

\* the patterns whose only choice point is one greedy quantifier
SingleGreedy == {"a*", "(ab)+"}

\* the patterns whose only choice point is one lazy quantifier
SingleLazy == {"a+?b", ".+?b", "(.)+?b", "a+?", "(a)+?"}

\* the patterns all of whose quantifiers are greedy
AllGreedy ==
    {"a*", "(ab)+", "a?(?:ab)?", "(a*)*", "(?:a|.)*", "(?:a*)*"}

\* self[state]
Out(A, state) == A.transitions[state]

\* self.transition(state, EPSILON, True): the ends of the epsilon
\* transitions leaving state, in list order
EpsilonSuccessors(A, state) ==
    LET eps == SelectSeq(Out(A, state), LAMBDA t : t.matcher = EPSILON)
    IN  [i \in 1..Len(eps) |-> eps[i].end]

(***************************************************************************)
(* RegexNFA.step: the transitions that can be taken from start_state at    *)
(* the cursor, through its epsilon closure.  The stack holds               *)
(* <<completed, state>> pairs and its top is its last element.             *)
(***************************************************************************)
\* a variant without the epsilon transitions into accepting states
StepCollectsMatching(A, t, cursor, context) ==
    Matches(t.matcher, cursor, context)

\* the test of the "completed" visit: the matcher matches at the cursor,
\* or the transition is an epsilon into an accepting state
StepCollects(A, t, cursor, context) ==
    \/ Matches(t.matcher, cursor, context)
    \/ (t.matcher = EPSILON /\ t.end \in A.accepting_states)

RECURSIVE stepLoop(_, _, _, _, _, _)
stepLoop(A, cursor, context, stack, explored, transitions) ==
    IF stack = <<>>
    THEN transitions
    ELSE LET completed == stack[Len(stack)][1]
             state == stack[Len(stack)][2]
             rest == SubSeq(stack, 1, Len(stack) - 1)
             collected ==
                 IF completed
                 THEN transitions \o
                      SelectSeq(Out(A, state),
                                LAMBDA t : StepCollects(A, t, cursor, context))
                 ELSE transitions
             succ == Reverse(EpsilonSuccessors(A, state))
         IN  IF state \in explored
             THEN stepLoop(A, cursor, context, rest, explored, collected)
             ELSE stepLoop(A, cursor, context,
                           (rest \o << <<TRUE, state>> >>) \o
                               [i \in 1..Len(succ) |-> <<FALSE, succ[i]>>],
                           explored \cup {state}, collected)

step(A, start_state, cursor, context) ==
    stepLoop(A, cursor, context, << <<FALSE, start_state>> >>, {}, <<>>)

(***************************************************************************)
(* RegexNFA._match_suffix_no_groups: depth-first backtracking.  The stack  *)
(* holds <<state, cursor, anchor path>> triples.                           *)
(***************************************************************************)
\* a variant that pushes in list order, so the last transition is popped first
PushOrderUnreversed(ts) == ts

\* reversed(self.step(...)): the order in which the loop pushes
PushOrder(ts) == Reverse(ts)

\* the stack entry pushed for transition t
NoGroupsEntry(t, cursor, path) ==
    <<t.end,
      update_index(t.matcher, cursor),
      IF IsAnchor(t.matcher) THEN Append(path, t.end) ELSE <<>> >>

\* a variant without the anchor path test
NoGroupsKeepsAll(t, path) == TRUE

\* an anchor transition whose end is already on the anchor path is skipped
NoGroupsKeeps(t, path) == ~(IsAnchor(t.matcher) /\ t.end \in Range(path))

NoGroupsEntries(kept, cursor, path) ==
    [i \in 1..Len(kept) |-> NoGroupsEntry(kept[i], cursor, path)]

\* the entries one popped <<state, cursor, path>> pushes, in push order
NoGroupsPushes(A, state, cursor, path, context) ==
    NoGroupsEntries(SelectSeq(PushOrder(step(A, state, cursor, context)),
                              LAMBDA t : NoGroupsKeeps(t, path)),
                    cursor, path)

RECURSIVE noGroupsLoop(_, _, _)
noGroupsLoop(A, context, stack) ==
    IF stack = <<>>
    THEN NoneVal
    ELSE LET state == stack[Len(stack)][1]
             cursor == stack[Len(stack)][2]
             path == stack[Len(stack)][3]
             rest == SubSeq(stack, 1, Len(stack) - 1)
         IN  IF state \in A.accepting_states
             THEN cursor
             ELSE noGroupsLoop(A, context,
                      rest \o NoGroupsPushes(A, state, cursor, path,
                                              context))

match_suffix_no_groups(A, cursor, context) ==
    noGroupsLoop(A, context, << <<A.start_state, cursor, <<>> >> >>)

(***************************************************************************)
(* RegexNFA._match_suffix_with_groups: the same depth-first backtracking,  *)
(* with the group slots carried along (matcher.update in place of          *)
(* matcher.update_index).                                                  *)
(***************************************************************************)
\* the stack entry pushed for transition t
WithGroupsEntry(t, cursor, path) ==
    <<t.end,
      update(t.matcher, cursor),
      IF IsAnchor(t.matcher) THEN Append(path, t.end) ELSE <<>> >>

WithGroupsEntries(kept, cursor, path) ==
    [i \in 1..Len(kept) |-> WithGroupsEntry(kept[i], cursor, path)]

\* the entries one popped <<state, cursor, path>> pushes, in push order
WithGroupsPushes(A, state, cursor, path, context) ==
    WithGroupsEntries(SelectSeq(PushOrder(step(A, state, cursor, context)),
                                LAMBDA t : NoGroupsKeeps(t, path)),
                      cursor, path)

RECURSIVE withGroupsLoop(_, _, _)
withGroupsLoop(A, context, stack) ==
    IF stack = <<>>
    THEN NoneVal
    ELSE LET state == stack[Len(stack)][1]
             cursor == stack[Len(stack)][2]
             path == stack[Len(stack)][3]
             rest == SubSeq(stack, 1, Len(stack) - 1)
         IN  IF state \in A.accepting_states
             THEN cursor
             ELSE withGroupsLoop(A, context,
                      rest \o WithGroupsPushes(A, state, cursor, path,
                                                context))

match_suffix_with_groups(A, cursor, context) ==
    withGroupsLoop(A, context, << <<A.start_state, cursor, <<>> >> >>)

(***************************************************************************)
(* RegexNFA.step0: the configurations <<transition, cursor>> reachable     *)
(* from the end of `start` through zero-width transitions.  `explored` is  *)
(* the caller's set, which step0 extends; the result carries it back.      *)
(***************************************************************************)
\* a variant without the [::-1]: the last transition is popped first
Step0SuccessorsUnreversed(A, transition, cursor) ==
    [i \in 1..Len(Out(A, transition.end)) |->
        <<Out(A, transition.end)[i], update(transition.matcher, cursor)>>]

\* a variant that leaves the cursor as it is
Step0SuccessorsNoUpdate(A, transition, cursor) ==
    [i \in 1..Len(Out(A, transition.end)) |->
        <<Reverse(Out(A, transition.end))[i], cursor>>]

\* [(nxt, matcher.update(cursor)) for nxt in self[transition.end][::-1]]
Step0Successors(A, transition, cursor) ==
    [i \in 1..Len(Out(A, transition.end)) |->
        <<Reverse(Out(A, transition.end))[i],
          update(transition.matcher, cursor)>>]

RECURSIVE step0Loop(_, _, _, _, _)
step0Loop(A, context, stack, explored, transitions) ==
    IF stack = <<>>
    THEN [transitions |-> transitions, explored |-> explored]
    ELSE LET transition == stack[Len(stack)][1]
             cursor == stack[Len(stack)][2]
             rest == SubSeq(stack, 1, Len(stack) - 1)
         IN  IF transition \in explored
             THEN step0Loop(A, context, rest, explored, transitions)
             ELSE IF IsAnchor(transition.matcher)
             THEN IF \/ transition.matcher = EPSILON
                     \/ Matches(transition.matcher, cursor, context)
                  THEN IF transition.end \in A.accepting_states
                       THEN step0Loop(A, context, rest,
                                explored \cup {transition},
                                Append(transitions, <<transition, cursor>>))
                       ELSE step0Loop(A, context,
                                rest \o Step0Successors(A, transition, cursor),
                                explored \cup {transition}, transitions)
                  ELSE step0Loop(A, context, rest,
                           explored \cup {transition}, transitions)
             ELSE step0Loop(A, context, rest, explored \cup {transition},
                            Append(transitions, <<transition, cursor>>))

\* a variant that starts from an empty set of explored transitions
step0FreshExplored(A, start_transition, cursor, context, explored) ==
    step0Loop(A, context, Step0Successors(A, start_transition, cursor),
              {}, <<>>)

step0(A, start_transition, cursor, context, explored) ==
    step0Loop(A, context, Step0Successors(A, start_transition, cursor),
              explored, <<>>)

(***************************************************************************)
(* RegexNFA._match_suffix_with_groups0: the level-synchronized search.     *)
(***************************************************************************)
\* `transition.end not in next_visited`: next_visited holds transitions and
\* transition.end is a state, so the membership test never succeeds
EndInVisited(transition, next_visited) == FALSE

\* the test that lets a queued configuration act
QueueTakes(A, transition, cursor, context) ==
    \/ Matches(transition.matcher, cursor, context)
    \/ (transition.matcher = EPSILON /\ transition.end \in A.accepting_states)

\* the inner `while queue` loop of one level; a match ends it (break).
\* levelExtend is frontier.extend(step0(...)), r being what step0 returned
RECURSIVE levelLoop(_, _, _, _, _, _)
RECURSIVE levelExtend(_, _, _, _, _, _)
levelLoop(A, context, queue, frontier, next_visited, match) ==
    IF queue = <<>>
    THEN [frontier |-> frontier, match |-> match]
    ELSE IF QueueTakes(A, Head(queue)[1], Head(queue)[2], context)
    THEN IF Head(queue)[1].end \in A.accepting_states
         THEN [frontier |-> frontier,
               match |-> update(Head(queue)[1].matcher, Head(queue)[2])]
         ELSE IF ~EndInVisited(Head(queue)[1], next_visited)
         THEN levelExtend(A, context, queue, frontier, match,
                          step0(A, Head(queue)[1], Head(queue)[2], context,
                                next_visited))
         ELSE levelLoop(A, context, Tail(queue), frontier, next_visited,
                        match)
    ELSE levelLoop(A, context, Tail(queue), frontier, next_visited, match)

levelExtend(A, context, queue, frontier, match, r) ==
    levelLoop(A, context, Tail(queue), frontier \o r.transitions, r.explored,
              match)

\* the outer `while True` loop: one iteration per level; groups0Level acts
\* on what the inner loop left
RECURSIVE groups0Loop(_, _, _, _)
RECURSIVE groups0Level(_, _, _)
groups0Loop(A, context, queue, match) ==
    groups0Level(A, context, levelLoop(A, context, queue, <<>>, {}, match))

groups0Level(A, context, r) ==
    IF r.frontier = <<>>
    THEN r.match
    ELSE groups0Loop(A, context, r.frontier, r.match)

match_suffix_with_groups0(A, cursor, context) ==
    groups0Loop(A, context,
                step0(A, Transition(EPSILON, A.start_state), cursor, context,
                      {}).transitions,
                NoneVal)

(***************************************************************************)
(* RegexNFA.match_suffix.  `isinstance(super(), DFA)` tests a super proxy  *)
(* object, which is never a DFA, so the choice is between the two NFA      *)
(* strategies.                                                             *)
(***************************************************************************)
match_suffix(A, cursor, context) ==
    IF A.group_count > 0
    THEN match_suffix_with_groups0(A, cursor, context)
    ELSE match_suffix_no_groups(A, cursor, context)

(***************************************************************************)
(* The subset construction and RegexNFA._match_suffix_dfa.  A state of the *)
(* determinised automaton is a set of states of the NFA.                   *)
(***************************************************************************)
States(A) == 1..Len(A.transitions)

\* a set as a list, in some fixed order: list(states)
RECURSIVE SetToSeq(_)
SetToSeq(S) ==
    IF S = {}
    THEN <<>>
    ELSE <<CHOOSE x \in S : TRUE>> \o SetToSeq(S \ {CHOOSE x \in S : TRUE})

\* a variant that returns the states it is given
closureLoopGiven(A, stack, seen, closure) == Range(stack)

\* NFA.epsilon_closure: a depth-first search over the epsilon transitions
RECURSIVE closureLoop(_, _, _, _)
closureLoop(A, stack, seen, closure) ==
    IF stack = <<>>
    THEN closure
    ELSE IF stack[Len(stack)] \in seen
    THEN closureLoop(A, SubSeq(stack, 1, Len(stack) - 1), seen, closure)
    ELSE closureLoop(A,
             SubSeq(stack, 1, Len(stack) - 1) \o
                 EpsilonSuccessors(A, stack[Len(stack)]),
             seen \cup {stack[Len(stack)]},
             closure \cup {stack[Len(stack)]})

epsilon_closure(A, states) == closureLoop(A, SetToSeq(states), {}, {})

\* NFA.move: the ends of the transitions on symbol that leave states
move(A, states, symbol) ==
    UNION {{t.end : t \in {x \in Range(Out(A, q)) : x.matcher = symbol}} :
              q \in states}

\* self.symbols: the matchers of the automaton other than epsilon
Symbols(A) ==
    UNION {{t.matcher : t \in Range(Out(A, q))} : q \in States(A)} \ {EPSILON}

\* NFA.compute_transitions_for_dfa_state: one transition per symbol, into
\* the closure of the states the symbol moves to
DFATransitions(A, sources, symbols) ==
    [i \in 1..Len(symbols) |->
        Transition(symbols[i],
                   epsilon_closure(A, move(A, epsilon_closure(A, sources),
                                           symbols[i])))]

\* the determinised automaton: it starts in the closure of the start state
\* and a state accepts when it holds an accepting state of the NFA
Determinize(A) ==
    [transitions |->
        [S \in SUBSET States(A) |->
            DFATransitions(A, S, SetToSeq(Symbols(A)))],
     start_state |-> epsilon_closure(A, {A.start_state}),
     accepting_states |->
        {S \in SUBSET States(A) : S \cap A.accepting_states # {}},
     group_count |-> 0]

\* a variant that returns the first candidate
FirstCandidate(cursors) == cursors[1]

\* max(matching_cursors, key=itemgetter(0)): the first of the cursors of
\* greatest position
MaxByPosition(cursors) ==
    cursors[CHOOSE i \in 1..Len(cursors) :
               \A j \in 1..Len(cursors) :
                  /\ cursors[j].position <= cursors[i].position
                  /\ j < i => cursors[j].position < cursors[i].position]

\* `if matching_cursors: return max(...)`, else None
DfaPick(matching_cursors) ==
    IF matching_cursors # <<>>
    THEN MaxByPosition(matching_cursors)
    ELSE NoneVal

\* `if result is not None: matching_cursors.append(result)`
DfaAppend(result, rest) ==
    IF result # NoneVal THEN <<result>> \o rest ELSE rest

\* _match_suffix_dfa on automaton D; the states of D are never None.
\* dfaResults is the loop over the transitions that match at the cursor
RECURSIVE match_suffix_dfa(_, _, _, _)
RECURSIVE dfaResults(_, _, _, _)
match_suffix_dfa(D, state, cursor, context) ==
    DfaPick((IF state \in D.accepting_states THEN <<cursor>> ELSE <<>>) \o
            dfaResults(D,
                       SelectSeq(Out(D, state),
                                 LAMBDA t : Matches(t.matcher, cursor, context)),
                       cursor, context))

dfaResults(D, transitions, cursor, context) ==
    IF transitions = <<>>
    THEN <<>>
    ELSE DfaAppend(match_suffix_dfa(D, Head(transitions).end,
                                    update_index(Head(transitions).matcher,
                                                 cursor),
                                    context),
                   dfaResults(D, Tail(transitions), cursor, context))

(***************************************************************************)
(* RegexMatch.                                                             *)
(***************************************************************************)
RegexMatch(s, e, t, captured_groups) ==
    [start |-> s, end |-> e, text |-> t, captured_groups |-> captured_groups]

\* RegexMatch.group_to_string; captured_groups[j] of the code is
\* captured_groups[j + 1] here, and an index past the list raises
GroupIsSet(frm, to) == frm # maxsize /\ frm # maxsize

\* a variant for which a slot past the list reads as unset
group_to_stringUnset(m, group_index) == NoneVal

group_to_string(m, group_index) ==
    IF group_index * 2 + 2 > Len(m.captured_groups)
    THEN IndexError
    ELSE LET frm == m.captured_groups[group_index * 2 + 1]
             to == m.captured_groups[group_index * 2 + 2]
         IN  IF GroupIsSet(frm, to)
             THEN Str(Slice(m.text, frm, to))
             ELSE NoneVal

\* RegexMatch.group
group(m, index) ==
    IF index < 0 \/ index > Len(m.captured_groups)
    THEN IndexError
    ELSE IF index = 0
    THEN Str(Slice(m.text, m.start, m.end))
    ELSE group_to_string(m, index - 1)

(***************************************************************************)
(* RegexPattern.finditer, a generator: one iteration of its scanning loop,  *)
(* and one pull of its next item.                                          *)
(***************************************************************************)
\* [maxsize for _ in range(group_count * 2)]
FreshGroups(A) == [i \in 1..(2 * A.group_count) |-> maxsize]

\* a variant that scans one position past the end of the text
ScanContinuesPastEnd(t, s) == s <= Len(t) + 1

\* a variant that stops before the end of the text
ScanContinuesBeforeEnd(t, s) == s < Len(t)

\* the condition of the scanning loop
ScanContinues(t, s) == s <= Len(t)

\* a variant that resumes one past the start of the match, whatever its end
NextStartRestart(s, position) == s + 1

\* a variant without the zero-width guard
NextStartNoGuard(s, position) == position

\* a variant with the zero-width guard inverted
NextStartGuardInverted(s, position) ==
    IF position = s THEN position ELSE position + 1

\* where the scan resumes after a match that ends at position
NextStart(s, position) == IF position = s THEN position + 1 ELSE position

\* the body of the loop at scan position s: what is yielded (or None) and
\* the next scan position
FinditerOutcome(t, s, result) ==
    IF result # NoneVal
    THEN [yield |-> RegexMatch(s, result.position, t, result.groups),
          start |-> NextStart(s, result.position)]
    ELSE [yield |-> NoneVal, start |-> s + 1]

FinditerBody(A, t, s) ==
    FinditerOutcome(t, s, match_suffix(A, Cursor(s, FreshGroups(A)), t))

\* next(generator) with the scan at position s: the loop runs until it
\* yields (yield is the match, start the position the scan resumes at) or
\* ends (yield is None)
RECURSIVE GenNext(_, _, _)
RECURSIVE GenResume(_, _, _)
GenNext(A, t, s) ==
    IF ~ScanContinues(t, s)
    THEN [yield |-> NoneVal, start |-> s]
    ELSE GenResume(A, t, FinditerBody(A, t, s))

\* after one iteration with outcome r: hand the item out or loop again
GenResume(A, t, r) ==
    IF r.yield # NoneVal THEN r ELSE GenNext(A, t, r.start)

(***************************************************************************)
(* RegexPattern.match: first_true(finditer(text), default=None).           *)
(***************************************************************************)
\* a variant in which an empty match is falsy
TruthyNonEmpty(m) == m.end > m.start

\* bool(m) of a RegexMatch: the class defines neither __bool__ nor __len__
Truthy(m) == TRUE

\* more_itertools.first_true(iterable, default) with no predicate, on the
\* generator whose scan is at position s: the first truthy item
RECURSIVE first_true(_, _, _, _)
RECURSIVE first_true_item(_, _, _, _)
first_true(A, t, s, default) ==
    first_true_item(A, t, GenNext(A, t, s), default)

\* r is what the generator handed out
first_true_item(A, t, r, default) ==
    IF r.yield = NoneVal
    THEN default
    ELSE IF Truthy(r.yield)
    THEN r.yield
    ELSE first_true(A, t, r.start, default)

match(A, t) == first_true(A, t, 0, NoneVal)

(***************************************************************************)
(* RegexPattern._sub and subn.  A replacer is a literal string or a        *)
(* callable; the callable explored is `lambda m: m.group(0)`.              *)
(***************************************************************************)
Replacers == {Str(<<"x">>), Str(<<>>), [tag |-> "callable", val |-> "group0"]}

\* r(match)
Replace(replacer, m) ==
    IF replacer.tag = "str" THEN replacer.val ELSE group(m, 0).val

\* more_itertools.take(n, iterable) on the generator whose scan is at
\* position s: at most n items are pulled
RECURSIVE take(_, _, _, _)
RECURSIVE take_item(_, _, _, _)
\* a variant that never stops on the count
takeIgnoringCount(n, A, t, s) == take_item(n, A, t, GenNext(A, t, s))

take(n, A, t, s) ==
    IF n = 0 THEN <<>> ELSE take_item(n, A, t, GenNext(A, t, s))

\* r is what the generator handed out
take_item(n, A, t, r) ==
    IF r.yield = NoneVal
    THEN <<>>
    ELSE <<r.yield>> \o take(n - 1, A, t, r.start)

\* the loop over the taken matches: the chunks, the cut position and the
\* number of substitutions after all of `matches`
\* a variant that leaves the cut position at the start of the match
SubIterationNoAdvance(string, replacer, m, acc) ==
    [chunks |-> (acc.chunks \o <<Slice(string, acc.start, m.start)>>) \o
                    <<Replace(replacer, m)>>,
     start |-> m.start,
     subs |-> acc.subs + 1]

\* one iteration of the loop, for match m
SubIteration(string, replacer, m, acc) ==
    [chunks |-> (acc.chunks \o <<Slice(string, acc.start, m.start)>>) \o
                    <<Replace(replacer, m)>>,
     start |-> m.end,
     subs |-> acc.subs + 1]

RECURSIVE subLoop(_, _, _, _)
subLoop(string, replacer, matches, acc) ==
    IF matches = <<>>
    THEN acc
    ELSE subLoop(string, replacer, Tail(matches),
                 SubIteration(string, replacer, Head(matches), acc))

\* chunks.append(string[start:]) and the returned pair
SubResult(string, r) ==
    <<Join(Append(r.chunks, Slice(string, r.start, Len(string)))), r.subs>>

sub_(A, string, replacer, count) ==
    SubResult(string,
              subLoop(string, replacer, take(count, A, string, 0),
                      [chunks |-> <<>>, start |-> 0, subs |-> 0]))

subn(A, string, replacer, count) == sub_(A, string, replacer, count)

(***************************************************************************)
(* The state machine.  A client compiles one pattern, picks one text and   *)
(* iterates finditer(text) one loop iteration at a time (start, yielded,   *)
(* pc are the generator's frame and output; attempts records the scan      *)
(* positions at which match_suffix was called).  Beside the iteration the  *)
(* client makes one further call of the public surface; `call` holds that  *)
(* call and its result.  `run` holds the local variables of a search       *)
(* routine that is followed one loop iteration at a time (LevelSpec and    *)
(* BacktrackSpec below).                                                   *)
(***************************************************************************)
NoCall == [op |-> "none"]

\* no search routine is being traced
NoRun == [alg |-> "none"]

\* a union-find structure without items
NoItems == [x \in {} |-> x]

\* the group indices a client asks for
GroupIndices(A) == -1..(2 * A.group_count + 1)

Init ==
    /\ text \in Texts
    /\ pat \in Patterns
    /\ start = 0
    /\ yielded = <<>>
    /\ attempts = <<>>
    /\ pc = "scan"
    /\ call = NoCall
    /\ run = NoRun
    /\ parents = NoItems
    /\ weights = NoItems

\* the effect of one iteration with outcome r on the generator
FinditerEffect(r) ==
    /\ yielded' = IF r.yield # NoneVal THEN Append(yielded, r.yield) ELSE yielded
    /\ start' = r.start

\* one iteration of the loop of finditer
FinditerNext ==
    /\ pc = "scan"
    /\ ScanContinues(text, start)
    /\ FinditerEffect(FinditerBody(Automaton(pat), text, start))
    /\ attempts' = Append(attempts, start)
    /\ UNCHANGED <<text, pat, pc, call, run, parents, weights>>

\* the loop condition fails: the generator is exhausted
FinditerExhausted ==
    /\ pc = "scan"
    /\ ~ScanContinues(text, start)
    /\ pc' = "done"
    /\ UNCHANGED <<text, pat, start, yielded, attempts, call, run,
                 parents, weights>>

\* match_suffix on a fresh cursor at position i
CallMatchSuffix ==
    /\ call = NoCall
    /\ \E i \in 0..Len(text) :
          call' = [op |-> "match_suffix", at |-> i,
                   res |-> match_suffix(Automaton(pat),
                                        Cursor(i, FreshGroups(Automaton(pat))),
                                        text)]
    /\ UNCHANGED <<text, pat, start, yielded, attempts, pc, run,
                 parents, weights>>

\* match(text)
CallMatch ==
    /\ call = NoCall
    /\ call' = [op |-> "match", res |-> match(Automaton(pat), text)]
    /\ UNCHANGED <<text, pat, start, yielded, attempts, pc, run,
                 parents, weights>>

\* subn(text, replacer, count)
CallSubn ==
    /\ call = NoCall
    /\ \E replacer \in Replacers, count \in 0..MaxCount :
          call' = [op |-> "subn", replacer |-> replacer, count |-> count,
                   res |-> subn(Automaton(pat), text, replacer, count)]
    /\ UNCHANGED <<text, pat, start, yielded, attempts, pc, run,
                 parents, weights>>

\* group(index) of a match the iteration has yielded
CallGroup ==
    /\ call = NoCall
    /\ \E k \in 1..Len(yielded), index \in GroupIndices(Automaton(pat)) :
          call' = [op |-> "group", m |-> yielded[k], index |-> index,
                   res |-> group(yielded[k], index)]
    /\ UNCHANGED <<text, pat, start, yielded, attempts, pc, run,
                 parents, weights>>

Next ==
    \/ FinditerNext
    \/ FinditerExhausted
    \/ CallMatchSuffix
    \/ CallMatch
    \/ CallSubn
    \/ CallGroup

Spec == Init /\ [][Next]_vars

(***************************************************************************)
(* RegexMatch is a public record: a client may build one from any slots.   *)
(* MatchSpec explores group(index) on the matches built over the chosen    *)
(* text, with every slot a position of the text or the sentinel.           *)
(***************************************************************************)
SlotValues(t) == 0..Len(t) \cup {maxsize}

\* the number of groups of the matches a client builds
MaxGroups == 1

BuiltMatches(t) ==
    {RegexMatch(0, Len(t), t, slots) :
        slots \in UNION {[1..(2 * g) -> SlotValues(t)] : g \in 0..MaxGroups}}

CallGroupBuilt ==
    /\ call = NoCall
    /\ \E m \in BuiltMatches(text) :
          \E index \in -1..(Len(m.captured_groups) + 1) :
             call' = [op |-> "group", m |-> m, index |-> index,
                      res |-> group(m, index)]
    /\ UNCHANGED <<text, pat, start, yielded, attempts, pc, run,
                 parents, weights>>

MatchSpec == Init /\ [][CallGroupBuilt]_vars

(***************************************************************************)
(* SearchSpec: a client calls one of the search routines of the compiled   *)
(* pattern directly, once, on the chosen text.                             *)
(***************************************************************************)
\* the two strategies for a pattern without groups, from position i
CallNoGroupStrategies ==
    /\ call = NoCall
    /\ Automaton(pat).group_count = 0
    /\ \E i \in 0..Len(text) :
          call' = [op |-> "no_group_strategies", at |-> i,
                   dfa |-> match_suffix_dfa(
                               Determinize(Automaton(pat)),
                               Determinize(Automaton(pat)).start_state,
                               Cursor(i, <<>>), text),
                   backtracking |-> match_suffix_no_groups(
                                        Automaton(pat), Cursor(i, <<>>), text)]
    /\ UNCHANGED <<text, pat, start, yielded, attempts, pc, run,
                 parents, weights>>

\* the two group-aware strategies, from a fresh cursor at position i
CallGroupStrategies ==
    /\ call = NoCall
    /\ \E i \in 0..Len(text) :
          call' = [op |-> "group_strategies", at |-> i,
                   bfs |-> match_suffix_with_groups0(
                               Automaton(pat),
                               Cursor(i, FreshGroups(Automaton(pat))), text),
                   dfs |-> match_suffix_with_groups(
                               Automaton(pat),
                               Cursor(i, FreshGroups(Automaton(pat))), text)]
    /\ UNCHANGED <<text, pat, start, yielded, attempts, pc, run,
                 parents, weights>>

\* step(state, cursor, context) from any state of the automaton
CallStep ==
    /\ call = NoCall
    /\ \E state \in States(Automaton(pat)), i \in 0..Len(text) :
          call' = [op |-> "step", state |-> state, at |-> i,
                   res |-> step(Automaton(pat), state,
                                Cursor(i, FreshGroups(Automaton(pat))), text)]
    /\ UNCHANGED <<text, pat, start, yielded, attempts, pc, run,
                 parents, weights>>

\* the states of the determinised automaton: the start state and every
\* state a transition leads to
DfaGrow(D, S) ==
    S \cup UNION {{t.end : t \in Range(Out(D, state))} : state \in S}

RECURSIVE DfaStates(_, _)
RECURSIVE DfaStatesNext(_, _, _)
DfaStates(D, S) == DfaStatesNext(D, S, DfaGrow(D, S))

DfaStatesNext(D, S, T) == IF T = S THEN S ELSE DfaStates(D, T)

\* _match_suffix_dfa(state, cursor, context) of the determinised automaton,
\* from any of its states
CallDfa ==
    /\ call = NoCall
    /\ Automaton(pat).group_count = 0
    /\ \E i \in 0..Len(text) :
          \E state \in DfaStates(Determinize(Automaton(pat)),
                                 {Determinize(Automaton(pat)).start_state}) :
             call' = [op |-> "dfa", state |-> state, at |-> i,
                      res |-> match_suffix_dfa(Determinize(Automaton(pat)),
                                               state, Cursor(i, <<>>), text)]
    /\ UNCHANGED <<text, pat, start, yielded, attempts, pc, run,
                 parents, weights>>

SearchNext ==
    \/ CallNoGroupStrategies
    \/ CallGroupStrategies
    \/ CallStep
    \/ CallDfa

SearchSpec == Init /\ [][SearchNext]_vars

(***************************************************************************)
(* ClosureSpec: epsilon_closure of the automaton of the chosen pattern,    *)
(* called once on any set of its states and once more on the result.  The  *)
(* routine takes no text.                                                  *)
(***************************************************************************)
ClosureInit ==
    /\ text = <<>>
    /\ pat \in Patterns
    /\ start = 0
    /\ yielded = <<>>
    /\ attempts = <<>>
    /\ pc = "scan"
    /\ call = NoCall
    /\ run = NoRun
    /\ parents = NoItems
    /\ weights = NoItems

CallEpsilonClosure ==
    /\ call = NoCall
    /\ \E states \in SUBSET States(Automaton(pat)) :
          call' = [op |-> "epsilon_closure", states |-> states,
                   res |-> epsilon_closure(Automaton(pat), states),
                   again |-> epsilon_closure(Automaton(pat),
                                 epsilon_closure(Automaton(pat), states))]
    /\ UNCHANGED <<text, pat, start, yielded, attempts, pc, run,
                 parents, weights>>

ClosureSpec == ClosureInit /\ [][CallEpsilonClosure]_vars

(***************************************************************************)
(* LevelSpec: _match_suffix_with_groups0 followed one iteration of its     *)
(* inner loop at a time.  run holds queue, frontier, next_visited and      *)
(* match; level counts the iterations of the outer loop, calls the step0   *)
(* calls made in the current one, and initial is the position of the       *)
(* cursor the routine was called with.                                     *)
(***************************************************************************)
\* the frame after the first step0 call and the first
\* `frontier, next_visited = deque(), set()`
LevelFrame(i, queue) ==
    [alg |-> "groups0", initial |-> i, level |-> 0, calls |-> 0,
     queue |-> queue, frontier |-> <<>>, next_visited |-> {},
     match |-> NoneVal, pc |-> "queue"]

LevelSearchBegin ==
    /\ run = NoRun
    /\ \E i \in 0..Len(text) :
          run' = LevelFrame(i,
                     step0(Automaton(pat),
                           Transition(EPSILON, Automaton(pat).start_state),
                           Cursor(i, FreshGroups(Automaton(pat))), text,
                           {}).transitions)
    /\ UNCHANGED <<text, pat, start, yielded, attempts, pc, call,
                 parents, weights>>

\* frontier.extend(step0(...)), s0 being what step0 returned
LevelPopExtend(r, s0) ==
    [r EXCEPT !.queue = Tail(r.queue),
              !.frontier = r.frontier \o s0.transitions,
              !.next_visited = s0.explored,
              !.calls = r.calls + 1]

\* one iteration of `while queue`, on frame r
LevelPop(A, context, r) ==
    IF QueueTakes(A, Head(r.queue)[1], Head(r.queue)[2], context)
    THEN IF Head(r.queue)[1].end \in A.accepting_states
         THEN [r EXCEPT !.queue = Tail(r.queue),
                        !.match = update(Head(r.queue)[1].matcher,
                                         Head(r.queue)[2]),
                        !.pc = "break"]
         ELSE IF ~EndInVisited(Head(r.queue)[1], r.next_visited)
         THEN LevelPopExtend(r, step0(A, Head(r.queue)[1], Head(r.queue)[2],
                                      context, r.next_visited))
         ELSE [r EXCEPT !.queue = Tail(r.queue)]
    ELSE [r EXCEPT !.queue = Tail(r.queue)]

LevelSearchPop ==
    /\ run.alg = "groups0"
    /\ run.pc = "queue"
    /\ run.queue # <<>>
    /\ run' = LevelPop(Automaton(pat), text, run)
    /\ UNCHANGED <<text, pat, start, yielded, attempts, pc, call,
                 parents, weights>>

\* the inner loop has ended (queue empty, or break): `if not frontier:
\* break`, else `queue, visited = frontier, next_visited` and the next
\* iteration of `while True`
LevelSearchEnd ==
    /\ run.alg = "groups0"
    /\ \/ run.pc = "queue" /\ run.queue = <<>>
       \/ run.pc = "break"
    /\ run' = IF run.frontier = <<>>
              THEN [run EXCEPT !.pc = "done"]
              ELSE [run EXCEPT !.queue = run.frontier,
                               !.frontier = <<>>,
                               !.next_visited = {},
                               !.level = run.level + 1,
                               !.calls = 0,
                               !.pc = "queue"]
    /\ UNCHANGED <<text, pat, start, yielded, attempts, pc, call,
                 parents, weights>>

LevelNext ==
    \/ LevelSearchBegin
    \/ LevelSearchPop
    \/ LevelSearchEnd

LevelSpec == Init /\ [][LevelNext]_vars

(***************************************************************************)
(* BacktrackSpec: _match_suffix_no_groups followed one iteration of its    *)
(* loop at a time.  run holds the stack and the returned value; iterations *)
(* counts the iterations of the loop.                                      *)
(***************************************************************************)
BacktrackSearchBegin ==
    /\ run = NoRun
    /\ \E i \in 0..Len(text) :
          run' = [alg |-> "no_groups", initial |-> i, iterations |-> 0,
                  stack |-> << <<Automaton(pat).start_state,
                                 Cursor(i, FreshGroups(Automaton(pat))),
                                 <<>> >> >>,
                  result |-> NoneVal, pc |-> "loop"]
    /\ UNCHANGED <<text, pat, start, yielded, attempts, pc, call,
                 parents, weights>>

\* one iteration of `while stack`, on frame r
BacktrackPop(A, context, r) ==
    IF r.stack[Len(r.stack)][1] \in A.accepting_states
    THEN [r EXCEPT !.stack = SubSeq(r.stack, 1, Len(r.stack) - 1),
                   !.iterations = r.iterations + 1,
                   !.result = r.stack[Len(r.stack)][2],
                   !.pc = "done"]
    ELSE [r EXCEPT !.stack = SubSeq(r.stack, 1, Len(r.stack) - 1) \o
                                 NoGroupsPushes(A, r.stack[Len(r.stack)][1],
                                                r.stack[Len(r.stack)][2],
                                                r.stack[Len(r.stack)][3],
                                                context),
                   !.iterations = r.iterations + 1]

BacktrackSearchPop ==
    /\ run.alg = "no_groups"
    /\ run.pc = "loop"
    /\ run.stack # <<>>
    /\ run' = BacktrackPop(Automaton(pat), text, run)
    /\ UNCHANGED <<text, pat, start, yielded, attempts, pc, call,
                 parents, weights>>

\* the stack is empty: `return None`
BacktrackSearchExhausted ==
    /\ run.alg = "no_groups"
    /\ run.pc = "loop"
    /\ run.stack = <<>>
    /\ run' = [run EXCEPT !.pc = "done"]
    /\ UNCHANGED <<text, pat, start, yielded, attempts, pc, call,
                 parents, weights>>

BacktrackNext ==
    \/ BacktrackSearchBegin
    \/ BacktrackSearchPop
    \/ BacktrackSearchExhausted

BacktrackSpec == Init /\ [][BacktrackNext]_vars

(***************************************************************************)
(* UnionFind of src/utils.py, the structure behind the minimisation of the *)
(* determinised automaton.  parents and weights are its two dictionaries,  *)
(* as functions from the known items.  No pattern or text is involved.     *)
(***************************************************************************)
\* the items a client may pass
MaxItems == 4

Items == 1..MaxItems

\* the two dictionaries as one value
UF(ps, ws) == [parents |-> ps, weights |-> ws]

\* UnionFind(items)
UnionFind(items) == UF([x \in items |-> x], [x \in items |-> 1])

\* d[k] = v
SetItem(d, k, v) == [x \in DOMAIN d \cup {k} |-> IF x = k THEN v ELSE d[x]]

\* `while root != path[-1]`: walk to the root, recording the path
RECURSIVE findLoop(_, _, _)
findLoop(ps, path, root) ==
    IF root # path[Len(path)]
    THEN findLoop(ps, Append(path, root), ps[root])
    ELSE [path |-> path, root |-> root]

\* a variant that leaves the path as it is
CompressNothing(ps, path, root) == ps

\* `for node in path: self.parents[node] = root`
Compress(ps, path, root) ==
    [x \in DOMAIN ps |-> IF x \in Range(path) THEN root ELSE ps[x]]

\* the known-item branch, given the walk
getitemKnown(uf, walk) ==
    [uf |-> UF(Compress(uf.parents, walk.path, walk.root), uf.weights),
     res |-> walk.root]

\* UnionFind.__getitem__: the structure afterwards and the value returned
getitem(uf, item) ==
    IF item \notin DOMAIN uf.parents
    THEN [uf |-> UF(SetItem(uf.parents, item, item),
                    SetItem(uf.weights, item, 1)),
          res |-> item]
    ELSE getitemKnown(uf, findLoop(uf.parents, <<item>>, uf.parents[item]))

\* {self[x] for x in objects}: the structure after the finds and the roots
AddRoot(found, root) ==
    [uf |-> found.uf, roots |-> found.roots \cup {root}]

RECURSIVE findAll(_, _)
RECURSIVE findRest(_, _)
findAll(uf, objects) ==
    IF objects = <<>>
    THEN [uf |-> uf, roots |-> {}]
    ELSE findRest(getitem(uf, Head(objects)), Tail(objects))

findRest(first, rest) == AddRoot(findAll(first.uf, rest), first.res)

\* a variant that puts a lightest root first
Lightest(ws, roots) == {r \in roots : \A q \in roots : ws[r] <= ws[q]}

\* the roots that sorted(..., key=weights, reverse=True) may put first: any
\* root of greatest weight, the order of a set deciding between equal ones
Heaviest(ws, roots) == {r \in roots : \A q \in roots : ws[q] <= ws[r]}

\* a variant that leaves the parent of r as it is
ReparentNothing(ps, r, heaviest) == ps

\* self.parents[r] = heaviest
Reparent(ps, r, heaviest) == [ps EXCEPT ![r] = heaviest]

\* `for r in roots`: the remaining roots are hung below heaviest
RECURSIVE mergeLoop(_, _, _)
mergeLoop(uf, heaviest, roots) ==
    IF roots = <<>>
    THEN uf
    ELSE mergeLoop(UF(Reparent(uf.parents, Head(roots), heaviest),
                      [uf.weights EXCEPT ![heaviest] =
                           uf.weights[heaviest] + uf.weights[Head(roots)]]),
                   heaviest, Tail(roots))

\* UnionFind.union(*objects) once the finds are done and heaviest is chosen
unionFound(found, heaviest) ==
    mergeLoop(found.uf, heaviest, SetToSeq(found.roots \ {heaviest}))

\* UnionFind._groups: the items grouped by parent
groups(ps) ==
    {{v \in DOMAIN ps : ps[v] = k} : k \in {ps[v] : v \in DOMAIN ps}}

\* `for x in self.parents.keys(): _ = self[x]`
RECURSIVE findEach(_, _)
findEach(uf, keys) ==
    IF keys = <<>>
    THEN uf
    ELSE findEach(getitem(uf, Head(keys)).uf, Tail(keys))

UnionFindInit ==
    /\ text = <<>>
    /\ pat = "a*"
    /\ start = 0
    /\ yielded = <<>>
    /\ attempts = <<>>
    /\ pc = "scan"
    /\ call = NoCall
    /\ run = NoRun
    /\ \E items \in SUBSET Items :
          /\ parents = UnionFind(items).parents
          /\ weights = UnionFind(items).weights

\* uf[item]
CallGetitem ==
    /\ \E item \in Items :
          /\ parents' = getitem(UF(parents, weights), item).uf.parents
          /\ weights' = getitem(UF(parents, weights), item).uf.weights
          /\ call' = [op |-> "getitem", item |-> item,
                      res |-> getitem(UF(parents, weights), item).res,
                      before |-> UF(parents, weights)]
    /\ UNCHANGED <<text, pat, start, yielded, attempts, pc, run>>

\* union with no roots returns at once
UnionNothing(objects) ==
    /\ findAll(UF(parents, weights), objects).roots = {}
    /\ call' = [op |-> "union", objects |-> objects, roots |-> {},
                heaviest |-> NoneVal, before |-> UF(parents, weights)]
    /\ UNCHANGED <<parents, weights>>

UnionMerge(objects, found) ==
    \E heaviest \in Heaviest(found.uf.weights, found.roots) :
        /\ parents' = unionFound(found, heaviest).parents
        /\ weights' = unionFound(found, heaviest).weights
        /\ call' = [op |-> "union", objects |-> objects,
                    roots |-> found.roots, heaviest |-> heaviest,
                    before |-> UF(parents, weights)]

\* uf.union(*objects); the arguments are distinct items in some order
CallUnion ==
    /\ \E S \in SUBSET Items :
          \/ UnionNothing(SetToSeq(S))
          \/ UnionMerge(SetToSeq(S),
                        findAll(UF(parents, weights), SetToSeq(S)))
    /\ UNCHANGED <<text, pat, start, yielded, attempts, pc, run>>

\* list(uf.to_sets())
CallToSets ==
    /\ parents' = findEach(UF(parents, weights),
                           SetToSeq(DOMAIN parents)).parents
    /\ weights' = findEach(UF(parents, weights),
                           SetToSeq(DOMAIN parents)).weights
    /\ call' = [op |-> "to_sets",
                res |-> groups(findEach(UF(parents, weights),
                                        SetToSeq(DOMAIN parents)).parents),
                before |-> UF(parents, weights)]
    /\ UNCHANGED <<text, pat, start, yielded, attempts, pc, run>>

UnionFindNext ==
    \/ CallGetitem
    \/ CallUnion
    \/ CallToSets

UnionFindSpec == UnionFindInit /\ [][UnionFindNext]_vars

(***************************************************************************)
(* The language of an automaton, independent of any search order:          *)
(* MatchEnds(A, t, i) is the set of positions e such that some run of A    *)
(* from its start state over t[i:e] ends in an accepting state.            *)
(***************************************************************************)
\* the configurations <<state, position>> one transition away from c
RunSuccessors(A, t, c) ==
    {<<tr.end, IF IsAnchor(tr.matcher) THEN c[2] ELSE c[2] + 1>> :
        tr \in {x \in Range(Out(A, c[1])) :
                   IsAnchor(x.matcher) \/ Matches(x.matcher, Cursor(c[2], <<>>), t)}}

RunStep(A, t, S) == S \cup UNION {RunSuccessors(A, t, c) : c \in S}

RECURSIVE RunClosure(_, _, _)
RECURSIVE RunClosureNext(_, _, _, _)
RunClosure(A, t, S) == RunClosureNext(A, t, S, RunStep(A, t, S))

RunClosureNext(A, t, S, T) == IF T = S THEN S ELSE RunClosure(A, t, T)

MatchEnds(A, t, i) ==
    {c[2] : c \in {x \in RunClosure(A, t, {<<A.start_state, i>>}) :
                      x[1] \in A.accepting_states}}

SetMax(S) == CHOOSE x \in S : \A y \in S : y <= x

SetMin(S) == CHOOSE x \in S : \A y \in S : x <= y

\* a successful match_suffix call on the compiled pattern
SuffixMatched == call.op = "match_suffix" /\ call.res # NoneVal

\* the ends the pattern can match from the position of the call
CallEnds == MatchEnds(Automaton(pat), text, call.at)

\* the matches of `yielded` that are empty
EmptyYields == {k \in 1..Len(yielded) : yielded[k].end = yielded[k].start}

(***************************************************************************)
(* Claims.                                                                 *)
(***************************************************************************)
\* C1: any two consecutive matches yielded by finditer satisfy
\* m_{i+1}.start >= m_i.end: matches come left to right and never overlap.
C1_NonOverlap ==
    \A k \in 1..(Len(yielded) - 1) :
        /\ yielded[k + 1].start >= yielded[k].end
        /\ yielded[k + 1].start > yielded[k].start

\* a non-empty match followed by another match
C1_Witness ==
    /\ Len(yielded) >= 2
    /\ yielded[1].end > yielded[1].start
    /\ yielded[2].start = yielded[1].end

\* C2: every iteration of the scanning loop strictly increases the scan
\* position, so a text of length n sees at most n + 1 match attempts, and no
\* empty match is yielded twice at the same position.
C2_ScanProgress ==
    /\ \A k \in 1..(Len(attempts) - 1) : attempts[k] < attempts[k + 1]
    /\ attempts # <<>> => attempts[Len(attempts)] < start
    /\ Len(attempts) <= Len(text) + 1
    /\ \A j, k \in EmptyYields : j # k => yielded[j].start # yielded[k].start

\* the scan made all n + 1 attempts and yielded empty and non-empty matches
C2_Witness ==
    /\ pc = "done"
    /\ Len(text) >= 2
    /\ Len(attempts) = Len(text) + 1
    /\ EmptyYields # {}
    /\ Len(yielded) > Cardinality(EmptyYields)

\* C3 as stated: for a pattern whose quantifiers are all greedy, a
\* successful match_suffix at position i returns the maximum of all ends e
\* such that text[i:e] is matched by the pattern.
C3_GreedyMaxAllGreedy ==
    (SuffixMatched /\ pat \in AllGreedy) =>
        call.res.position = SetMax(CallEnds)

\* C3 amended: for a pattern whose only choice point is one greedy
\* quantifier, a successful match_suffix at position i returns the maximum of
\* all ends e such that text[i:e] is matched by the pattern.
C3_GreedyMax ==
    (SuffixMatched /\ pat \in SingleGreedy) =>
        /\ call.res.position \in CallEnds
        /\ call.res.position = SetMax(CallEnds)

\* a greedy match that had a shorter alternative
C3_Witness ==
    /\ SuffixMatched
    /\ pat = "(ab)+"
    /\ Cardinality(CallEnds) >= 2
    /\ call.res.position = SetMax(CallEnds)

\* C4: for a pattern whose quantifier is lazy, a successful match_suffix at
\* position i returns the minimum of all ends e such that text[i:e] is
\* matched by the whole pattern; `a+?b` on `aaab` gives (0, 4).
C4_LazyMin ==
    /\ (SuffixMatched /\ pat \in SingleLazy) =>
           /\ call.res.position \in CallEnds
           /\ call.res.position = SetMin(CallEnds)
    /\ (SuffixMatched /\ pat = "a+?b" /\ text = <<"a", "a", "a", "b">>
            /\ call.at = 0) => call.res.position = 4

\* C5: an accepting cursor lies within the text, so every match of finditer
\* has 0 <= start <= end <= len(text), and group(0) is text[start:end].
C5_SpanInText ==
    /\ \A k \in 1..Len(yielded) :
          /\ 0 <= yielded[k].start
          /\ yielded[k].start <= yielded[k].end
          /\ yielded[k].end <= Len(text)
          /\ group(yielded[k], 0) =
                 Str(SubSeq(text, yielded[k].start + 1, yielded[k].end))
    /\ SuffixMatched =>
          (call.at <= call.res.position /\ call.res.position <= Len(text))
    /\ (call.op = "group" /\ call.index = 0) =>
          call.res = Str(SubSeq(text, call.m.start + 1, call.m.end))

\* group(0) was asked of a non-empty match that ends at the end of the text
C5_Witness ==
    /\ call.op = "group"
    /\ call.index = 0
    /\ call.m.start > 0
    /\ call.m.end = Len(text)
    /\ call.res.val # <<>>

\* C6: for 1 <= k <= group_count, group(k) is None when either endpoint slot
\* of group k is still the sentinel, and text[from:to] of the two slots
\* otherwise.
C6_GroupUnset ==
    (/\ call.op = "group"
     /\ 1 <= call.index
     /\ 2 * call.index <= Len(call.m.captured_groups)) =>
        IF \/ call.m.captured_groups[2 * call.index - 1] = maxsize
           \/ call.m.captured_groups[2 * call.index] = maxsize
        THEN call.res = NoneVal
        ELSE call.res = Str(Slice(call.m.text,
                                  call.m.captured_groups[2 * call.index - 1],
                                  call.m.captured_groups[2 * call.index]))

C8_MatchAtStart ==
    call.op = "match" =>
        /\ call.res # NoneVal => call.res.start = 0
        /\ MatchEnds(Automaton(pat), text, 0) = {} => call.res = NoneVal

\* C9: the substitution count of subn(text, r, k) is at most k and equals
\* min(k, number of matches finditer(text) yields).
C9_SubCount ==
    call.op = "subn" =>
        /\ call.res[2] <= call.count
        /\ call.res[2] >= Min2(call.count, Len(yielded))
        /\ pc = "done" => call.res[2] = Min2(call.count, Len(yielded))

\* the count cut the substitutions short
C9_Witness ==
    /\ call.op = "subn"
    /\ pc = "done"
    /\ call.count > 0
    /\ call.count < Len(yielded)
    /\ call.res[2] = call.count

\* the text rebuilt from the matches and the uncovered spans between them:
\* text[cut:m.start] and group(0) for each match m, then text[cut:]
RECURSIVE Rebuilt(_, _, _)
Rebuilt(t, matches, cut) ==
    IF matches = <<>>
    THEN SubSeq(t, cut + 1, Len(t))
    ELSE (SubSeq(t, cut + 1, Head(matches).start) \o group(Head(matches), 0).val)
             \o Rebuilt(t, Tail(matches), Head(matches).end)

\* C10: the uncovered spans of the text and the group(0) of each match of
\* finditer(text), concatenated in order, give back the text; and
\* sub(text, m -> m.group(0)) = text for any count.
C10_RoundTrip ==
    /\ pc = "done" => Rebuilt(text, yielded, 0) = text
    /\ (call.op = "subn" /\ call.replacer.tag = "callable") =>
           call.res[1] = text

\* a substitution by group(0) of a match that leaves text uncovered on both
\* sides
C10_Witness ==
    /\ call.op = "subn"
    /\ call.replacer.tag = "callable"
    /\ pc = "done"
    /\ call.res[2] >= 1
    /\ yielded[1].start > 0
    /\ yielded[1].end > yielded[1].start
    /\ yielded[1].end < Len(text)
    /\ call.res[1] = text

\* C11 as stated: for every pattern without capturing groups, every text and
\* every start position, _match_suffix_dfa and _match_suffix_no_groups
\* return identical spans: both None, or the same end position.
C11_StrategiesIdentical ==
    call.op = "no_group_strategies" => call.dfa = call.backtracking

\* C11 amended: for a pattern without capturing groups the two strategies
\* agree on whether there is a match; the DFA strategy returns the greatest
\* matching end and the backtracking strategy an end that is not greater;
\* the ends are identical when the only choice point of the pattern is one
\* greedy quantifier.
C11_StrategiesAgree ==
    call.op = "no_group_strategies" =>
        /\ call.dfa = NoneVal <=> call.backtracking = NoneVal
        /\ call.dfa = NoneVal <=> CallEnds = {}
        /\ call.dfa # NoneVal =>
              /\ call.dfa.position = SetMax(CallEnds)
              /\ call.backtracking.position <= call.dfa.position
        /\ pat \in SingleGreedy => call.dfa = call.backtracking

\* the two strategies returned the same span, of at least two characters,
\* where a shorter span matches as well
C11_Witness ==
    /\ call.op = "no_group_strategies"
    /\ pat \in SingleGreedy
    /\ call.dfa # NoneVal
    /\ call.dfa = call.backtracking
    /\ call.dfa.position >= call.at + 2
    /\ Cardinality(CallEnds) >= 3

\* C12 as stated: for consecutive matches m_i, m_{i+1} yielded by finditer,
\* m_{i+1}.start > m_i.end whenever m_i is non-empty.
C12_StrictAfterNonEmpty ==
    \A k \in 1..(Len(yielded) - 1) :
        yielded[k].end > yielded[k].start =>
            yielded[k + 1].start > yielded[k].end

\* C12 amended: for consecutive matches m_i, m_{i+1} yielded by finditer,
\* m_{i+1}.start >= m_i.end, and the inequality is strict whenever m_i is
\* empty.
C12_StrictAfterEmpty ==
    \A k \in 1..(Len(yielded) - 1) :
        /\ yielded[k + 1].start >= yielded[k].end
        /\ yielded[k].end = yielded[k].start =>
               yielded[k + 1].start > yielded[k].end

\* an empty match followed by a non-empty one, itself followed by a match
\* that starts where it ends
C12_Witness ==
    /\ Len(yielded) >= 3
    /\ yielded[1].end = yielded[1].start
    /\ yielded[2].start = yielded[1].end + 1
    /\ yielded[2].end > yielded[2].start
    /\ yielded[3].start = yielded[2].end

\* the pattern matches the empty string, and nothing else, at every position
\* of the text
OnlyEmptyEverywhere ==
    \A i \in 0..Len(text) : MatchEnds(Automaton(pat), text, i) = {i}

\* C13: when the pattern matches only the empty string at every position of
\* a text of length n, finditer yields exactly n + 1 matches, with spans
\* (i, i) for i = 0..n in increasing order; `a*` on `bbb` yields
\* (0,0) (1,1) (2,2) (3,3).
C13_EmptyMatches ==
    /\ OnlyEmptyEverywhere =>
          /\ \A k \in 1..Len(yielded) :
                yielded[k].start = k - 1 /\ yielded[k].end = k - 1
          /\ Len(yielded) <= Len(text) + 1
          /\ pc = "done" => Len(yielded) = Len(text) + 1
    /\ (pat = "a*" /\ text = <<"b", "b", "b">> /\ pc = "done") =>
          [k \in 1..Len(yielded) |-> <<yielded[k].start, yielded[k].end>>]
              = <<<<0, 0>>, <<1, 1>>, <<2, 2>>, <<3, 3>>>>

\* the scan of `bbb` for `a*` has ended with four matches
C13_Witness ==
    /\ pat = "a*"
    /\ text = <<"b", "b", "b">>
    /\ pc = "done"
    /\ OnlyEmptyEverywhere
    /\ Len(yielded) = 4
    /\ yielded[4].start = 3

\* C14: the two group-aware strategies agree: for every automaton, text and
\* start cursor, _match_suffix_with_groups0 and _match_suffix_with_groups
\* both return None, or return cursors with the same position and the same
\* group slots.
C14_GroupStrategiesAgree ==
    call.op = "group_strategies" => call.bfs = call.dfs

\* the slots of group 1 after the last iteration of the quantified group on
\* the accepted path of a match of text[at:position]
LastIterationSlots(p, at, position) ==
    CASE p = "(ab)+" -> <<position - 2, position>>
      [] p = "(.)+?b" -> <<position - 2, position - 1>>
      [] p = "(a)+?" -> <<position - 1, position>>
      [] p = "(a*)*" -> <<at, position>>

\* C15: for a quantified capturing group the slots of the returned cursor
\* hold the span of the last iteration of the group on the accepted path:
\* `(ab)+` on `abab` from 0 returns position 4 with groups [2, 4], and in
\* general entry slot <= exit slot, both within [start, end] of the match.
C15_LastIteration ==
    (SuffixMatched /\ Automaton(pat).group_count > 0) =>
        /\ call.at <= call.res.groups[1]
        /\ call.res.groups[1] <= call.res.groups[2]
        /\ call.res.groups[2] <= call.res.position
        /\ call.res.groups = LastIterationSlots(pat, call.at, call.res.position)
        /\ (pat = "(ab)+" /\ text = <<"a", "b", "a", "b">> /\ call.at = 0) =>
               call.res = Cursor(4, <<2, 4>>)

\* `(ab)+` matched `abab` from position 0
C15_Witness ==
    /\ SuffixMatched
    /\ pat = "(ab)+"
    /\ text = <<"a", "b", "a", "b">>
    /\ call.at = 0
    /\ call.res = Cursor(4, <<2, 4>>)

\* C16: the level search is level-synchronized: at level k every
\* configuration in queue carries a cursor at position initial + k and every
\* configuration placed in frontier one at position initial + k + 1, so the
\* levels number at most len(text) - initial + 1 and the search terminates.
C16_LevelSynchronized ==
    run.alg = "groups0" =>
        /\ \A k \in 1..Len(run.queue) :
              run.queue[k][2].position = run.initial + run.level
        /\ \A k \in 1..Len(run.frontier) :
              run.frontier[k][2].position = run.initial + run.level + 1
        /\ run.level <= Len(text) - run.initial

\* the third level of a search, with configurations in queue and in frontier
C16_Witness ==
    /\ run.alg = "groups0"
    /\ run.pc = "queue"
    /\ run.level = 2
    /\ run.queue # <<>>
    /\ run.frontier # <<>>
    /\ run.frontier[1][2].position = run.initial + 3

\* the transitions of an automaton
TransitionsOf(A) == UNION {Range(Out(A, q)) : q \in States(A)}

\* the transitions of a list of configurations are pairwise distinct
DistinctTransitions(configs) ==
    \A j, k \in 1..Len(configs) : j # k => configs[j][1] # configs[k][1]

\* C17: within one level the step0 calls share one visited set keyed by
\* transition, so no transition is explored twice in a level: frontier holds
\* each transition at most once, its length is at most the number of
\* transitions of the automaton, and step0 returns even on automata with
\* cycles of epsilon transitions such as that of `(a*)*`.
C17_VisitedOncePerLevel ==
    run.alg = "groups0" =>
        /\ DistinctTransitions(run.frontier)
        /\ DistinctTransitions(run.queue)
        /\ Len(run.frontier) <= Cardinality(TransitionsOf(Automaton(pat)))
        /\ {run.frontier[k][1] : k \in 1..Len(run.frontier)}
               \subseteq run.next_visited
        /\ run.next_visited \subseteq TransitionsOf(Automaton(pat))

\* a level in which the configuration about to be taken leads to
\* transitions that an earlier step0 call of the level has explored
C17_Witness ==
    /\ run.alg = "groups0"
    /\ run.pc = "queue"
    /\ run.calls >= 1
    /\ run.queue # <<>>
    /\ QueueTakes(Automaton(pat), Head(run.queue)[1], Head(run.queue)[2], text)
    /\ Head(run.queue)[1].end \notin Automaton(pat).accepting_states
    /\ Range(Out(Automaton(pat), Head(run.queue)[1].end)) \cap run.next_visited
           # {}

\* the states of a path are pairwise distinct
DistinctStates(path) ==
    \A j, k \in 1..Len(path) : j # k => path[j] # path[k]

\* some character transition into state matches the character before
\* position
EnteredByCharacter(A, context, state, position) ==
    /\ position > 0
    /\ \E t \in TransitionsOf(A) :
          /\ ~IsAnchor(t.matcher)
          /\ t.end = state
          /\ Matches(t.matcher, Cursor(position - 1, <<>>), context)

\* C18: _match_suffix_no_groups terminates for every automaton and text,
\* cycles of zero-width transitions included: no entry is pushed for an
\* anchor transition whose end state is already on the anchor path, and the
\* anchor path is empty only at the start and after a character is consumed.
C18_BacktrackTerminates ==
    run.alg = "no_groups" =>
        /\ \A k \in 1..Len(run.stack) :
              /\ DistinctStates(run.stack[k][3])
              /\ run.stack[k][3] # <<>> =>
                     run.stack[k][3][Len(run.stack[k][3])] = run.stack[k][1]
              /\ run.stack[k][3] = <<>> =>
                     \/ /\ run.stack[k][1] = Automaton(pat).start_state
                        /\ run.stack[k][2].position = run.initial
                     \/ /\ run.stack[k][2].position > run.initial
                        /\ EnteredByCharacter(Automaton(pat), text,
                                              run.stack[k][1],
                                              run.stack[k][2].position)
              /\ run.stack[k][2].position >= run.initial
              /\ run.stack[k][2].position <= Len(text)
        /\ run.iterations <=
               Len(Automaton(pat).transitions) * (Len(text) - run.initial + 1)

\* the entry about to be popped has an anchor transition back into a state
\* of its anchor path
C18_Witness ==
    /\ run.alg = "no_groups"
    /\ run.pc = "loop"
    /\ run.stack # <<>>
    /\ \E t \in Range(step(Automaton(pat), run.stack[Len(run.stack)][1],
                           run.stack[Len(run.stack)][2], text)) :
          /\ IsAnchor(t.matcher)
          /\ t.end \in Range(run.stack[Len(run.stack)][3])

\* a transition is valid at the cursor: its matcher matches there, or it is
\* an epsilon transition directly into an accepting state
ValidAt(A, t, i, context) ==
    \/ Matches(t.matcher, Cursor(i, <<>>), context)
    \/ (t.matcher = EPSILON /\ t.end \in A.accepting_states)

\* the valid transitions in priority order: the list of a state is walked in
\* order; a valid transition is listed where it stands, and the transitions
\* first reached through an epsilon transition are listed where that epsilon
\* transition stands.  acc carries the list so far and the states reached.
RECURSIVE priorityWalk(_, _, _, _, _)
priorityWalk(A, i, context, ts, acc) ==
    IF ts = <<>>
    THEN acc
    ELSE IF Head(ts).matcher = EPSILON /\ Head(ts).end \notin acc.reached
    THEN priorityWalk(A, i, context, Tail(ts),
             priorityWalk(A, i, context, Out(A, Head(ts).end),
                 [transitions |->
                      IF ValidAt(A, Head(ts), i, context)
                      THEN Append(acc.transitions, Head(ts))
                      ELSE acc.transitions,
                  reached |-> acc.reached \cup {Head(ts).end}]))
    ELSE priorityWalk(A, i, context, Tail(ts),
             [transitions |->
                  IF ValidAt(A, Head(ts), i, context)
                  THEN Append(acc.transitions, Head(ts))
                  ELSE acc.transitions,
              reached |-> acc.reached])

PriorityOrder(A, state, i, context) ==
    priorityWalk(A, i, context, Out(A, state),
                 [transitions |-> <<>>, reached |-> {state}]).transitions

\* C19: step(state, cursor) returns the transitions in the order of the
\* source transition lists (priority order): what is collected through an
\* earlier transition of a state comes before what is collected through a
\* later one, a transition into u counting as collected through u, and the
\* transitions of one state keep their list order; pushed reversed, the one
\* of highest priority is popped first.
C19_StepPriorityOrder ==
    call.op = "step" =>
        call.res = PriorityOrder(Automaton(pat), call.state, call.at, text)

\* the states reachable from S through epsilon transitions, S included
RECURSIVE EpsilonReach(_, _)
RECURSIVE EpsilonReachNext(_, _, _)
EpsilonReach(A, S) ==
    EpsilonReachNext(A, S,
        S \cup UNION {{t.end : t \in {x \in Range(Out(A, q)) :
                                         x.matcher = EPSILON}} : q \in S})

EpsilonReachNext(A, S, T) == IF T = S THEN S ELSE EpsilonReach(A, T)

\* how many times x occurs in a list
Occurrences(list, x) == Cardinality({k \in 1..Len(list) : list[k] = x})

\* the places <<q, k>> of the valid transitions of the states of closure
ValidPlaces(A, closure, i, context) ==
    {pl \in UNION {{<<q, k>> : k \in 1..Len(Out(A, q))} : q \in closure} :
        ValidAt(A, Out(A, pl[1])[pl[2]], i, context)}

\* C20: for every automaton, cycles of epsilon transitions included, every
\* state and every cursor, step returns exactly the outgoing transitions of
\* the states of the epsilon closure of the state that match at the cursor
\* or are epsilon transitions directly into an accepting state: each of them
\* once and no other.
C20_StepExact ==
    call.op = "step" =>
        \A t \in TransitionsOf(Automaton(pat)) \cup Range(call.res) :
            Occurrences(call.res, t) =
                Cardinality({pl \in ValidPlaces(Automaton(pat),
                                        EpsilonReach(Automaton(pat),
                                                     {call.state}),
                                        call.at, text) :
                                Out(Automaton(pat), pl[1])[pl[2]] = t})

\* step from a state on a cycle of epsilon transitions returned a character
\* transition and an epsilon transition into the accepting state
C20_Witness ==
    /\ call.op = "step"
    /\ call.state \in
           EpsilonReach(Automaton(pat),
                        Range(EpsilonSuccessors(Automaton(pat), call.state)))
    /\ Len(call.res) >= 2
    /\ \E t \in Range(call.res) : ~IsAnchor(t.matcher)
    /\ \E t \in Range(call.res) : t.matcher = EPSILON

\* the configurations <<state, position>> one matching transition away from c
MatchingSuccessors(D, t, c) ==
    {<<tr.end, update_index(tr.matcher, Cursor(c[2], <<>>)).position>> :
        tr \in {x \in Range(Out(D, c[1])) :
                   Matches(x.matcher, Cursor(c[2], <<>>), t)}}

\* the configurations reached from those of S by matching transitions
RECURSIVE MatchingClosure(_, _, _)
RECURSIVE MatchingClosureNext(_, _, _, _)
MatchingClosure(D, t, S) ==
    MatchingClosureNext(D, t, S,
        S \cup UNION {MatchingSuccessors(D, t, c) : c \in S})

MatchingClosureNext(D, t, S, T) ==
    IF T = S THEN S ELSE MatchingClosure(D, t, T)

\* the positions at which an accepting state is reached from <<state, i>>
AcceptingPositions(D, t, state, i) ==
    {c[2] : c \in {x \in MatchingClosure(D, t, {<<state, i>>}) :
                      x[1] \in D.accepting_states}}

\* the cursor of greatest position, or None when there is no position
LongestOrNone(P) ==
    IF P = {} THEN NoneVal ELSE Cursor(SetMax(P), <<>>)

\* C21: _match_suffix_dfa(state, cursor) returns the cursor of greatest
\* position among the cursors at which an accepting state is reached by
\* following matching transitions from (state, cursor), the starting state
\* counted when it accepts, and None exactly when no accepting state is
\* reached that way.
C21_DfaLongest ==
    call.op = "dfa" =>
        call.res = LongestOrNone(
                       AcceptingPositions(Determinize(Automaton(pat)), text,
                                          call.state, call.at))

\* the starting state accepts, accepting states are reached at other
\* positions too, and the call returned a later position than the cursor's
C21_Witness ==
    /\ call.op = "dfa"
    /\ call.state \in Determinize(Automaton(pat)).accepting_states
    /\ Cardinality(AcceptingPositions(Determinize(Automaton(pat)), text,
                                      call.state, call.at)) >= 3
    /\ call.res # NoneVal
    /\ call.res.position > call.at + 1

\* T holds the end of every epsilon transition that leaves one of its states
ClosedUnderEpsilon(A, T) ==
    \A q \in T : \A t \in Range(Out(A, q)) : t.matcher = EPSILON => t.end \in T

\* C22: for every automaton, cycles of epsilon transitions included, and
\* every set S of its states, epsilon_closure(S) returns the least set that
\* contains S and is closed under epsilon transitions, which is the set of
\* states reachable from S by zero or more epsilon transitions, and
\* epsilon_closure(epsilon_closure(S)) = epsilon_closure(S).  EpsilonReach
\* grows S by epsilon successors until nothing is added, so it lies within
\* every closed set that contains S: a closed result equal to it is least.
C22_LeastClosedSet ==
    call.op = "epsilon_closure" =>
        /\ call.states \subseteq call.res
        /\ ClosedUnderEpsilon(Automaton(pat), call.res)
        /\ call.res = EpsilonReach(Automaton(pat), call.states)
        /\ call.again = call.res

\* the closure of a state on a cycle of epsilon transitions, larger than the
\* set it was asked for
C22_Witness ==
    /\ call.op = "epsilon_closure"
    /\ \E q \in call.states :
          q \in EpsilonReach(Automaton(pat),
                             Range(EpsilonSuccessors(Automaton(pat), q)))
    /\ Cardinality(call.res) >= Cardinality(call.states) + 2
    /\ call.res # States(Automaton(pat))

\* the representative of x: the root its chain of parents ends in
RECURSIVE Rep(_, _)
Rep(ps, x) == IF ps[x] = x THEN x ELSE Rep(ps, ps[x])

\* the sets of the structure: the known items grouped by representative
Partition(ps) ==
    {{y \in DOMAIN ps : Rep(ps, y) = Rep(ps, x)} : x \in DOMAIN ps}

\* the sets of Q that hold one of the items of args
Touched(Q, args) == {P \in Q : P \cap args # {}}

\* the partition before a union, an argument not yet known being a set of
\* its own
PartitionWith(ps, args) ==
    Partition(ps) \cup {{x} : x \in args \ DOMAIN ps}

\* C23: union(x1, ..., xn) merges exactly the sets that hold its arguments:
\* afterwards the arguments share one representative, every element that
\* shared a set with an argument has that representative too, every other
\* set is unchanged, and union() without arguments or with arguments that
\* were already in one set leaves the partition as it was; to_sets returns
\* the partition.
C23_UnionMergesExactly ==
    /\ call.op = "union" =>
          /\ \A x \in Range(call.objects), y \in Range(call.objects) :
                Rep(parents, x) = Rep(parents, y)
          /\ \A P \in Touched(Partition(call.before.parents),
                              Range(call.objects)) :
                \A y \in P :
                   \A x \in Range(call.objects) :
                      Rep(parents, y) = Rep(parents, x)
          /\ \A P \in Partition(call.before.parents) :
                P \cap Range(call.objects) = {} => P \in Partition(parents)
          /\ Partition(parents) =
                (PartitionWith(call.before.parents, Range(call.objects))
                   \ Touched(PartitionWith(call.before.parents,
                                           Range(call.objects)),
                             Range(call.objects)))
                \cup (IF call.objects = <<>>
                      THEN {}
                      ELSE {UNION Touched(
                                PartitionWith(call.before.parents,
                                              Range(call.objects)),
                                Range(call.objects))})
          /\ (\/ call.objects = <<>>
              \/ \E P \in Partition(call.before.parents) :
                    Range(call.objects) \subseteq P)
                => Partition(parents) = Partition(call.before.parents)
    /\ call.op = "to_sets" =>
          /\ call.res = Partition(call.before.parents)
          /\ Partition(parents) = call.res

\* a union of two sets, one of them with an element that is not an
\* argument, while a third set stays out of it
C23_Witness ==
    /\ call.op = "union"
    /\ Cardinality(call.roots) >= 2
    /\ \E P \in Touched(Partition(call.before.parents), Range(call.objects)) :
          P \ Range(call.objects) # {}
    /\ \E P \in Partition(call.before.parents) :
          P \cap Range(call.objects) = {}

\* the number of known items whose representative is r
SetSize(ps, r) == Cardinality({x \in DOMAIN ps : Rep(ps, x) = r})

\* C24: after any sequence of finds and unions, the weight of every root
\* is the number of items whose representative it is, and a union makes a
\* heaviest of the roots of its arguments the representative of the merged
\* set.
C24_UnionByWeight ==
    /\ DOMAIN weights = DOMAIN parents
    /\ \A r \in DOMAIN parents :
          parents[r] = r => weights[r] = SetSize(parents, r)
    /\ (call.op = "union" /\ call.objects # <<>>) =>
          /\ call.roots =
                {Rep(call.before.parents, x) :
                    x \in Range(call.objects) \cap DOMAIN call.before.parents}
                \cup (Range(call.objects) \ DOMAIN call.before.parents)
          /\ \A x \in Range(call.objects) :
                /\ Rep(parents, x) \in call.roots
                /\ \A q \in call.roots :
                      SetSize(SetItem(call.before.parents, q, q), q)
                          <= SetSize(SetItem(call.before.parents,
                                             Rep(parents, x),
                                             Rep(parents, x)),
                                     Rep(parents, x))

\* a union of a set with a lighter one, into a set of three items or more
C24_Witness ==
    /\ call.op = "union"
    /\ call.roots # {}
    /\ \E q \in call.roots :
          /\ q \in DOMAIN call.before.weights
          /\ call.heaviest \in DOMAIN call.before.weights
          /\ call.before.weights[q] < call.before.weights[call.heaviest]
    /\ weights[call.heaviest] >= 3

\* the nodes from x up to the root of its tree
RECURSIVE Chain(_, _)
Chain(ps, x) == IF ps[x] = x THEN {x} ELSE {x} \cup Chain(ps, ps[x])

\* C25: __getitem__ of a known item returns the root of the tree of the
\* item, afterwards every node of the path from the item to the root points
\* at the root, and the partition is unchanged; __getitem__ of an unknown
\* item makes it a set of its own, of weight 1, and changes no other set.
C25_FindCompresses ==
    call.op = "getitem" =>
        IF call.item \in DOMAIN call.before.parents
        THEN /\ call.res = Rep(call.before.parents, call.item)
             /\ parents[call.res] = call.res
             /\ \A n \in Chain(call.before.parents, call.item) :
                   parents[n] = call.res
             /\ \A n \in DOMAIN call.before.parents
                           \ Chain(call.before.parents, call.item) :
                   parents[n] = call.before.parents[n]
             /\ DOMAIN parents = DOMAIN call.before.parents
             /\ Partition(parents) = Partition(call.before.parents)
             /\ weights = call.before.weights
        ELSE /\ call.res = call.item
             /\ DOMAIN parents = DOMAIN call.before.parents \cup {call.item}
             /\ parents[call.item] = call.item
             /\ weights[call.item] = 1
             /\ \A n \in DOMAIN call.before.parents :
                   /\ parents[n] = call.before.parents[n]
                   /\ weights[n] = call.before.weights[n]
             /\ Partition(parents) =
                   Partition(call.before.parents) \cup {{call.item}}

\* the item found was two steps below its root
C25_Witness ==
    /\ call.op = "getitem"
    /\ call.item \in DOMAIN call.before.parents
    /\ Cardinality(Chain(call.before.parents, call.item)) >= 3
    /\ parents[call.item] = call.res

\* C26: for a match whose captured_groups has 2*g slots, group(index)
\* raises IndexError for every index below 0 or above g and returns no value
\* for it, although the test at the head of group rejects only an index
\* above 2*g; group(0) returns text[start:end].
C26_GroupIndexError ==
    call.op = "group" =>
        /\ (call.index < 0 \/ 2 * call.index > Len(call.m.captured_groups))
              => call.res = IndexError
        /\ call.index = 0
              => call.res = Str(SubSeq(call.m.text, call.m.start + 1,
                                       call.m.end))

\* an index above the number of groups that passes the test at the head of
\* group raised IndexError
C26_Witness ==
    /\ call.op = "group"
    /\ 2 * call.index > Len(call.m.captured_groups)
    /\ call.index <= Len(call.m.captured_groups)
    /\ call.res = IndexError

====
